---------------------------- MODULE Spec2Model ----------------------------
(***************************************************************************)
(* A model of the vigyantra python-service:                                *)
(*   - scanners/link_scanner.py     LinkScanner.scan / _analyze_url        *)
(*   - scanners/privacy_scanner.py  PrivacyScanner.scan                    *)
(*   - api.py                       scan_resume / extract_text_from_pdf    *)
(*   - parsers/resume_parser.py     ResumeParser.parse_file                *)
(* Texts and URLs are TLA+ strings handled character by character, so the  *)
(* URL regular expression, urlparse's netloc split, lower-casing and the   *)
(* substring tests of the domain lists are computed as the code computes   *)
(* them.                                                                   *)
(***************************************************************************)
EXTENDS Integers, Sequences, FiniteSets, TLC

VARIABLES
    text,             \* LinkScanner.scan: parsed_content['text']
    urls,             \* LinkScanner.scan: urls = url_pattern.findall(text)
    lpc,              \* LinkScanner.scan: position of the coroutine
    idx,              \* LinkScanner.scan: 1-based index of the URL of the for loop
    vulnerabilities,  \* LinkScanner.scan: the list being appended to
    analysis_log,     \* history: the url_analysis value of every finished iteration
    probe_log,        \* history: <<index, outcome>> of every settled probe
    inflight,         \* history: indices of the URLs whose probe is started, not settled
    max_inflight,     \* history: the largest number of probes ever in flight at once
    elapsed,          \* history: wall time spent awaiting, in probe-timeout intervals
    link_result,      \* LinkScanner.scan: the returned dict, NoResult before the return
    matches,          \* PrivacyScanner.scan: len(pattern.findall(text)) of each category
    ppc,              \* PrivacyScanner.scan: "start" before the call, "done" after
    privacy_result,   \* PrivacyScanner.scan: the returned dict
    content_type,     \* scan_resume: file.content_type of the upload
    pdf,              \* scan_resume: what the two PDF libraries do with the upload
    apc,              \* scan_resume: position of the handler
    tmp_file,         \* scan_resume: "none" before the temporary file, "unlinked" after it
    extraction,       \* scan_resume: what extract_text_from_pdf did, NoExtraction if not called
    api_response      \* scan_resume: what the caller receives

link_vars == <<text, urls, lpc, idx, vulnerabilities, analysis_log, probe_log,
               inflight, max_inflight, elapsed, link_result>>

privacy_vars == <<matches, ppc, privacy_result>>

api_vars == <<content_type, pdf, apc, tmp_file, extraction, api_response>>

-----------------------------------------------------------------------------
(* Bounds of the model *)

\* the number of whitespace-separated tokens a resume text is built from
MaxTokens == 2

\* the largest number of matches of one privacy pattern in a text
MaxMatches == 3

\* the largest number of pages of an uploaded PDF
MaxPages == 2

\* the largest number of skill keywords found in an extracted text
MaxSkills == 3

-----------------------------------------------------------------------------
(* Characters and strings *)

Ch(s, i) == SubSeq(s, i, i)

LowerLetters == {"a","b","c","d","e","f","g","h","i","j","k","l","m",
                 "n","o","p","q","r","s","t","u","v","w","x","y","z"}

UpperLetters == {"A","B","C","D","E","F","G","H","I","J","K","L","M",
                 "N","O","P","Q","R","S","T","U","V","W","X","Y","Z"}

Digits == {"0","1","2","3","4","5","6","7","8","9"}

\* str.lower() of one character
LowerChar(c) ==
    CASE c = "A" -> "a" [] c = "B" -> "b" [] c = "C" -> "c" [] c = "D" -> "d"
      [] c = "E" -> "e" [] c = "F" -> "f" [] c = "G" -> "g" [] c = "H" -> "h"
      [] c = "I" -> "i" [] c = "J" -> "j" [] c = "K" -> "k" [] c = "L" -> "l"
      [] c = "M" -> "m" [] c = "N" -> "n" [] c = "O" -> "o" [] c = "P" -> "p"
      [] c = "Q" -> "q" [] c = "R" -> "r" [] c = "S" -> "s" [] c = "T" -> "t"
      [] c = "U" -> "u" [] c = "V" -> "v" [] c = "W" -> "w" [] c = "X" -> "x"
      [] c = "Y" -> "y" [] c = "Z" -> "z" [] OTHER -> c

RECURSIVE Lower(_)
Lower(s) == IF s = "" THEN "" ELSE LowerChar(Head(s)) \o Lower(Tail(s))

\* s[i:i+len(p)] == p
StartsWithAt(s, i, p) ==
    /\ i + Len(p) - 1 <= Len(s)
    /\ SubSeq(s, i, i + Len(p) - 1) = p

\* Python's `p in s` on strings
Contains(s, p) == \E i \in 1..(Len(s) + 1) : StartsWithAt(s, i, p)

\* s.find(c) over a set of characters, from position i; Len(s)+1 when none
RECURSIVE FindFirstOf(_, _, _)
FindFirstOf(s, cs, i) ==
    IF i > Len(s) THEN Len(s) + 1
    ELSE IF Ch(s, i) \in cs THEN i
    ELSE FindFirstOf(s, cs, i + 1)


-----------------------------------------------------------------------------
(* LinkScanner.__init__: the URL pattern and the domain lists *)

\* [$-_]: the characters from '$' (0x24) to '_' (0x5F)
DollarToUnderscore ==
    {"$", "%", "&", "'", "(", ")", "*", "+", ",", "-", ".", "/",
     ":", ";", "<", "=", ">", "?", "@", "[", "\\", "]", "^", "_"}
        \cup Digits \cup UpperLetters

\* one repetition of the group of url_pattern:
\*   [a-zA-Z] | [0-9] | [$-_@.&+] | [!*\\(\\),] | %[0-9a-fA-F][0-9a-fA-F]
\* ('%' is in [$-_], so the last alternative never adds a character)
UrlChars ==
    LowerLetters \cup UpperLetters \cup Digits \cup DollarToUnderscore
        \cup {"@", ".", "&", "+"} \cup {"!", "*", "\\", "(", ")", ","}

suspicious_domains ==
    <<"bit.ly", "tinyurl.com", "short.link", "malware-test.com", "phishing-test.com">>

safe_domains ==
    <<"linkedin.com", "github.com", "google.com", "stackoverflow.com", "medium.com">>

shortener_domains == <<"bit.ly", "tinyurl.com", "t.co", "goo.gl", "short.link">>

\* the position after the longest run of URL characters starting at i
RECURSIVE UrlRunEnd(_, _)
UrlRunEnd(s, i) ==
    IF i <= Len(s) /\ Ch(s, i) \in UrlChars THEN UrlRunEnd(s, i + 1) ELSE i

\* url_pattern.match at position i: the last position of the match, 0 when none
UrlMatchEnd(s, i) ==
    IF ~StartsWithAt(s, i, "http") THEN 0
    ELSE LET j == IF StartsWithAt(s, i + 4, "s") THEN i + 5 ELSE i + 4
             e == UrlRunEnd(s, j + 3)
         IN  IF StartsWithAt(s, j, "://") /\ e > j + 3 THEN e - 1 ELSE 0

\* url_pattern.findall(text): the non-overlapping matches, left to right
RECURSIVE FindAllFrom(_, _)
FindAllFrom(s, i) ==
    IF i > Len(s) THEN <<>>
    ELSE LET e == UrlMatchEnd(s, i)
         IN  IF e = 0 THEN FindAllFrom(s, i + 1)
             ELSE <<SubSeq(s, i, e)>> \o FindAllFrom(s, e + 1)

FindAll(s) == FindAllFrom(s, 1)

-----------------------------------------------------------------------------
(* urllib.parse.urlparse(url).netloc, as _analyze_url uses it *)

\* urlsplit: the scheme ends at the first ':', and after "//" the netloc runs
\* to the first of '/', '?', '#'
NetLoc(url) ==
    LET c == FindFirstOf(url, {":"}, 1)
        d == FindFirstOf(url, {"/", "?", "#"}, c + 3)
    IN  IF StartsWithAt(url, c + 1, "//") THEN SubSeq(url, c + 3, d - 1) ELSE ""

\* urlsplit raises ValueError("Invalid IPv6 URL") when the netloc holds one
\* bracket without the other.  With both brackets, Python >= 3.11.4 also
\* validates the bracketed host and may raise, older versions never do: the
\* outcome depends on the interpreter, so both are possible.
UrlParseRaises(url) ==
    LET n == NetLoc(url)
        open == Contains(n, "[")
        close == Contains(n, "]")
    IN  IF open /\ close THEN {TRUE, FALSE}
        ELSE IF open \/ close THEN {TRUE}
        ELSE {FALSE}

\* domain = parsed_url.netloc.lower()
Domain(url) == Lower(NetLoc(url))

\* any(d in domain for d in list)
AnyIn(list, domain) == \E k \in 1..Len(list) : Contains(domain, list[k])

IsDigitsAt(s, i, n) ==
    /\ i + n - 1 <= Len(s)
    /\ \A k \in i..(i + n - 1) : Ch(s, k) \in Digits

IsDotAt(s, i) == i <= Len(s) /\ Ch(s, i) = "."

\* re.search(r'[0-9]{1,3}\.[0-9]{1,3}\.[0-9]{1,3}\.[0-9]{1,3}', domain)
IpPatternSearch(domain) ==
    \E i \in 1..Len(domain) : \E a, b, c, d \in 1..3 :
        /\ IsDigitsAt(domain, i, a)
        /\ IsDotAt(domain, i + a)
        /\ IsDigitsAt(domain, i + a + 1, b)
        /\ IsDotAt(domain, i + a + b + 1)
        /\ IsDigitsAt(domain, i + a + b + 2, c)
        /\ IsDotAt(domain, i + a + b + c + 2)
        /\ IsDigitsAt(domain, i + a + b + c + 3, d)

-----------------------------------------------------------------------------
(* LinkScanner._analyze_url *)

\* the dict _analyze_url returns; reason is a tag for the reason text
Res(sus, sev, why) ==
    [kind |-> "result", is_suspicious |-> sus, severity |-> sev, reason |-> why]

\* _analyze_url reached the reachability probe (the aiohttp HEAD request)
NeedProbe ==
    [kind |-> "probe", is_suspicious |-> FALSE, severity |-> "none", reason |-> "probe"]

\* an exception leaving _analyze_url (no path of the code produces it)
Raised ==
    [kind |-> "raise", is_suspicious |-> FALSE, severity |-> "none", reason |-> "raise"]

\* _analyze_url without the shortener rule
AnalyzeLists_NoShortenerRule(url, raises) ==
    IF raises THEN Res(TRUE, "low", "analysis_failed")
    ELSE LET domain == Domain(url)
         IN  IF AnyIn(suspicious_domains, domain)
                 THEN Res(TRUE, "high", "suspicious_domain")
             ELSE IF IpPatternSearch(domain)
                 THEN Res(TRUE, "medium", "ip_address")
             ELSE IF AnyIn(safe_domains, domain)
                 THEN Res(FALSE, "none", "safe_domain")
             ELSE NeedProbe

\* _analyze_url without the safe-list rule: safe domains are probed
AnalyzeLists_NoSafeRule(url, raises) ==
    IF raises THEN Res(TRUE, "low", "analysis_failed")
    ELSE LET domain == Domain(url)
         IN  IF AnyIn(suspicious_domains, domain)
                 THEN Res(TRUE, "high", "suspicious_domain")
             ELSE IF AnyIn(shortener_domains, domain)
                 THEN Res(TRUE, "medium", "shortener")
             ELSE IF IpPatternSearch(domain)
                 THEN Res(TRUE, "medium", "ip_address")
             ELSE NeedProbe

\* the list rules of _analyze_url, in the order of the code; raises says
\* whether urlparse raised, which the outer except turns into a result
AnalyzeLists(url, raises) ==
    IF raises THEN Res(TRUE, "low", "analysis_failed")
    ELSE LET domain == Domain(url)
         IN  IF AnyIn(suspicious_domains, domain)
                 THEN Res(TRUE, "high", "suspicious_domain")
             ELSE IF AnyIn(shortener_domains, domain)
                 THEN Res(TRUE, "medium", "shortener")
             ELSE IF IpPatternSearch(domain)
                 THEN Res(TRUE, "medium", "ip_address")
             ELSE IF AnyIn(safe_domains, domain)
                 THEN Res(FALSE, "none", "safe_domain")
             ELSE NeedProbe

\* aiohttp.ClientTimeout(total=5): the seconds a probe that times out takes
ClientTimeoutTotal == 5

\* response.status values a server can answer a HEAD request with
StatusCodes == {101, 200, 204, 301, 399, 400, 404, 503}

\* what awaiting session.head(url) can end in
ProbeOutcomes ==
    {[kind |-> k, status |-> 0] : k \in {"timeout", "connect_error", "exception"}}
        \cup {[kind |-> "status", status |-> c] : c \in StatusCodes}

\* the status test written `> 400`
ProbeClassify_Above400(o) ==
    IF o.kind = "status"
        THEN IF o.status > 400
                 THEN Res(TRUE, "low", "error_status")
                 ELSE Res(FALSE, "none", "appears_safe")
        ELSE Res(TRUE, "low", "not_accessible")

\* the probe without its except clause: a failed request raises
ProbeClassify_NoExcept(o) ==
    IF o.kind = "status"
        THEN IF o.status >= 400
                 THEN Res(TRUE, "low", "error_status")
                 ELSE Res(FALSE, "none", "appears_safe")
        ELSE Raised

\* the inner try/except of _analyze_url and the return after it
ProbeClassify(o) ==
    IF o.kind = "status"
        THEN IF o.status >= 400
                 THEN Res(TRUE, "low", "error_status")
                 ELSE Res(FALSE, "none", "appears_safe")
        ELSE Res(TRUE, "low", "not_accessible")

-----------------------------------------------------------------------------
(* LinkScanner.scan *)

NoResult == [pending |-> TRUE]

\* the dict appended to vulnerabilities for a suspicious URL
Vulnerability(url, a) ==
    [type |-> "Suspicious URL", severity |-> a.severity, url |-> url,
     details |-> a.reason]

\* the dict returned after the loop
ScanReturn(found, vulns) ==
    [vulnerabilities |-> vulns,
     url_summary |-> [total_urls |-> Len(found),
                      suspicious_urls |-> Len(vulns),
                      analyzed_urls |-> found]]

\* the dict returned when findall finds nothing
ScanReturnNoUrls == [vulnerabilities |-> <<>>]

\* the resume texts scanned: up to MaxTokens tokens joined by single spaces
TokenPool ==
    {"resume", "http://", "www.linkedin.com",
     "http://bit.ly/x", "https://t.co/a,", "http://1.2.3.4:80/",
     "https://GitHub.com/u#me", "http://ab.io", "http://cd.io/p?q",
     "http://bit.ly@1.2.3.4", "http://git.corp.google.com",
     "http://[t.co", "http://[1.2.3.4]"}

RECURSIVE JoinTokens(_)
JoinTokens(ts) ==
    IF ts = <<>> THEN ""
    ELSE IF Len(ts) = 1 THEN ts[1]
    ELSE ts[1] \o " " \o JoinTokens(Tail(ts))

Texts == {JoinTokens(ts) : ts \in UNION {[1..n -> TokenPool] : n \in 0..MaxTokens}}

LinkInit ==
    /\ text \in Texts
    /\ urls = <<>>
    /\ lpc = "start"
    /\ idx = 0
    /\ vulnerabilities = <<>>
    /\ analysis_log = <<>>
    /\ probe_log = <<>>
    /\ inflight = {}
    /\ max_inflight = 0
    /\ elapsed = 0
    /\ link_result = NoResult

\* scan, lines 33-39: findall, and the early return when there is no URL
ScanStart ==
    /\ lpc = "start"
    /\ urls' = FindAll(text)
    /\ IF urls' = <<>>
           THEN lpc' = "done" /\ idx' = idx /\ link_result' = ScanReturnNoUrls
           ELSE lpc' = "loop" /\ idx' = 1 /\ link_result' = link_result
    /\ UNCHANGED <<text, vulnerabilities, analysis_log, probe_log, inflight,
                   max_inflight, elapsed>>
    /\ UNCHANGED <<privacy_vars, api_vars>>

\* scan, lines 43-60: `await self._analyze_url(url)` has returned a (or
\* raised): the append, the next iteration, and the return after the last one
FinishIteration(a) ==
    IF a.kind = "raise"
        THEN /\ lpc' = "error"
             /\ UNCHANGED <<idx, vulnerabilities, analysis_log, link_result>>
        ELSE /\ analysis_log' = Append(analysis_log, a)
             /\ vulnerabilities' =
                    IF a.is_suspicious
                        THEN Append(vulnerabilities, Vulnerability(urls[idx], a))
                        ELSE vulnerabilities
             /\ IF idx = Len(urls)
                    THEN /\ lpc' = "done"
                         /\ idx' = idx
                         /\ link_result' = ScanReturn(urls, vulnerabilities')
                    ELSE /\ lpc' = "loop"
                         /\ idx' = idx + 1
                         /\ link_result' = link_result

\* one iteration of the loop up to the probe: _analyze_url either returns
\* from a list rule (or from the outer except) or starts the HEAD request
AnalyzeUrl ==
    /\ lpc = "loop"
    /\ \E raises \in UrlParseRaises(urls[idx]) :
           LET a == AnalyzeLists(urls[idx], raises)
           IN  IF a.kind = "probe"
                   THEN /\ lpc' = "probing"
                        /\ inflight' = inflight \cup {idx}
                        /\ max_inflight' =
                               IF Cardinality(inflight') > max_inflight
                                   THEN Cardinality(inflight') ELSE max_inflight
                        /\ UNCHANGED <<idx, vulnerabilities, analysis_log,
                                       link_result>>
                   ELSE /\ FinishIteration(a)
                        /\ UNCHANGED <<inflight, max_inflight>>
    /\ UNCHANGED <<text, urls, probe_log, elapsed>>
    /\ UNCHANGED <<privacy_vars, api_vars>>

\* the awaited HEAD request settles with outcome o; the coroutine resumes
ProbeSettle ==
    /\ lpc = "probing"
    /\ \E o \in ProbeOutcomes :
           /\ probe_log' = Append(probe_log, <<idx, o>>)
           /\ elapsed' = IF o.kind = "timeout"
                             THEN elapsed + ClientTimeoutTotal ELSE elapsed
           /\ FinishIteration(ProbeClassify(o))
    /\ inflight' = inflight \ {idx}
    /\ UNCHANGED <<text, urls, max_inflight>>
    /\ UNCHANGED <<privacy_vars, api_vars>>

-----------------------------------------------------------------------------
(* PrivacyScanner *)

\* self.patterns, in the insertion order the for loop of scan follows
patterns == <<"email", "phone", "ssn", "credit_card", "address", "date_of_birth">>

\* self.risk_levels
risk_levels ==
    [ssn |-> "high", credit_card |-> "high", date_of_birth |-> "medium",
     address |-> "medium", phone |-> "low", email |-> "low"]

\* info_type.replace('_', ' ').title()
TypeTitle(info_type) ==
    CASE info_type = "email" -> "Email"
      [] info_type = "phone" -> "Phone"
      [] info_type = "ssn" -> "Ssn"
      [] info_type = "credit_card" -> "Credit Card"
      [] info_type = "address" -> "Address"
      [] info_type = "date_of_birth" -> "Date Of Birth"

\* the issue scan appends for a category with count matches
Issue(info_type, count) ==
    [type |-> TypeTitle(info_type), info_type |-> info_type, count |-> count,
     risk_level |-> risk_levels[info_type],
     examples |-> IF count < 3 THEN count ELSE 3]

\* the for loop of scan over the first k patterns: `if matches: issues.append`
RECURSIVE BuildIssues(_, _)
BuildIssues(m, k) ==
    IF k = 0 THEN <<>>
    ELSE LET front == BuildIssues(m, k - 1)
         IN  IF m[patterns[k]] > 0
                 THEN Append(front, Issue(patterns[k], m[patterns[k]]))
                 ELSE front

\* _calculate_privacy_risk without its medium branch
CalculatePrivacyRisk_NoMedium(issues) ==
    IF \E k \in 1..Len(issues) : issues[k].risk_level = "high" THEN "high"
    ELSE IF issues # <<>> THEN "low"
    ELSE "none"

\* _calculate_privacy_risk
CalculatePrivacyRisk(issues) ==
    IF \E k \in 1..Len(issues) : issues[k].risk_level = "high" THEN "high"
    ELSE IF \E k \in 1..Len(issues) : issues[k].risk_level = "medium" THEN "medium"
    ELSE IF issues # <<>> THEN "low"
    ELSE "none"

RECURSIVE SumCounts(_)
SumCounts(issues) ==
    IF issues = <<>> THEN 0 ELSE Head(issues).count + SumCounts(Tail(issues))

PrivacyInit ==
    /\ matches \in [{patterns[k] : k \in 1..Len(patterns)} -> 0..MaxMatches]
    /\ ppc = "start"
    /\ privacy_result = NoResult

\* PrivacyScanner.scan
PrivacyScan ==
    /\ ppc = "start"
    /\ LET issues == BuildIssues(matches, Len(patterns))
       IN  privacy_result' =
               [issues |-> issues,
                risk_level |-> CalculatePrivacyRisk(issues),
                summary |->
                    [total_types |-> Len(issues),
                     high_risk_items |->
                         Cardinality({k \in 1..Len(issues) :
                                         issues[k].risk_level = "high"}),
                     total_exposures |-> SumCounts(issues)]]
    /\ ppc' = "done"
    /\ UNCHANGED matches
    /\ UNCHANGED <<link_vars, api_vars>>

-----------------------------------------------------------------------------
(* api.py: extract_text_from_pdf *)

\* what pdfplumber's page.extract_text() does on a page: a text, None or an
\* empty string ("none"), or an exception
PlumberPageOutcomes == {"text", "none", "raise"}

\* what PyPDF2's page.extract_text() does on a page: a text, an empty
\* string, or an exception
PyPdfPageOutcomes == {"text", "empty", "raise"}

\* an uploaded PDF, as the two libraries see it
PdfDocs ==
    UNION {[n : {n}, plumber_open : BOOLEAN, plumber_pages : [1..n -> PlumberPageOutcomes],
            pypdf_open : BOOLEAN, pypdf_pages : [1..n -> PyPdfPageOutcomes]]
               : n \in 0..MaxPages}

\* the upload of a request that is not a PDF: the libraries never see it
NoPdf ==
    [n |-> 0, plumber_open |-> FALSE, plumber_pages |-> <<>>,
     pypdf_open |-> FALSE, pypdf_pages |-> <<>>]

\* the text a library extracts from page k: "p<k>" by pdfplumber, "q<k>" by PyPDF2
PageText(lib, k) == lib \o SubSeq("123456789", k, k)

\* the pdfplumber loop from page k on, text being what is accumulated so far
RECURSIVE PlumberLoop(_, _, _)
PlumberLoop(doc, k, acc) ==
    IF k > doc.n THEN [ok |-> TRUE, text |-> acc]
    ELSE IF doc.plumber_pages[k] = "raise" THEN [ok |-> FALSE, text |-> acc]
    ELSE IF doc.plumber_pages[k] = "none" THEN PlumberLoop(doc, k + 1, acc)
    ELSE PlumberLoop(doc, k + 1, acc \o PageText("p", k) \o "\n")

\* the PyPDF2 loop from page k on: `text += page.extract_text() + "\n"`
RECURSIVE PyPdfLoop(_, _, _)
PyPdfLoop(doc, k, acc) ==
    IF k > doc.n THEN [ok |-> TRUE, text |-> acc]
    ELSE IF doc.pypdf_pages[k] = "raise" THEN [ok |-> FALSE, text |-> acc]
    ELSE IF doc.pypdf_pages[k] = "empty" THEN PyPdfLoop(doc, k + 1, acc \o "\n")
    ELSE PyPdfLoop(doc, k + 1, acc \o PageText("q", k) \o "\n")

NoExtraction ==
    [called |-> FALSE, ok |-> FALSE, text |-> "", primary_ok |-> FALSE,
     secondary_tried |-> FALSE]

\* extract_text_from_pdf: pdfplumber first; on any exception PyPDF2, which
\* goes on appending to the same `text`; HTTPException(500) when both fail
ExtractTextFromPdf(doc) ==
    LET primary == IF doc.plumber_open THEN PlumberLoop(doc, 1, "")
                   ELSE [ok |-> FALSE, text |-> ""]
        secondary == IF doc.pypdf_open THEN PyPdfLoop(doc, 1, primary.text)
                     ELSE [ok |-> FALSE, text |-> primary.text]
    IN  IF primary.ok
            THEN [called |-> TRUE, ok |-> TRUE, text |-> primary.text,
                  primary_ok |-> TRUE, secondary_tried |-> FALSE]
            ELSE [called |-> TRUE, ok |-> secondary.ok, text |-> secondary.text,
                  primary_ok |-> FALSE, secondary_tried |-> TRUE]

-----------------------------------------------------------------------------
(* api.py: scan_resume *)

\* the media types the handler accepts
SupportedTypes ==
    {"application/pdf", "application/msword",
     "application/vnd.openxmlformats-officedocument.wordprocessingml.document"}

\* the declared media types of the uploads
ContentTypes == SupportedTypes \cup {"text/plain", "image/png"}

\* the text the handler uses for DOC and DOCX uploads
DocPlaceholderText == "DOC/DOCX processing not implemented yet"

\* what extract_resume_info can find in `extracted`: the number of skill
\* keywords, an email, a phone number.  The placeholder text and a text with
\* no page text in it hold none of them.
ResumeFacts(extracted) ==
    IF extracted = DocPlaceholderText \/ ~(Contains(extracted, "p") \/ Contains(extracted, "q"))
        THEN {[skills |-> 0, email |-> FALSE, phone |-> FALSE]}
        ELSE [skills : 0..MaxSkills, email : BOOLEAN, phone : BOOLEAN]

\* the risk score and level of scan_resume, from len(extracted_skills)
RiskScore(n_skills) == IF n_skills < 3 THEN 15 + 10 ELSE 15

RiskLevel(risk_score) ==
    IF risk_score < 30 THEN "low" ELSE IF risk_score < 60 THEN "medium" ELSE "high"

NoResponse ==
    [kind |-> "pending", status |-> 0, detail |-> "", cause |-> "",
     risk_score |-> 0, risk_level |-> "", vulnerabilities |-> 0,
     email_count |-> 0, phone_count |-> 0, skills |-> 0]

\* raise HTTPException(status_code=status, detail=detail); cause names the
\* exception the handler was handling
HttpError(status, detail, cause) ==
    [NoResponse EXCEPT !.kind = "error", !.status = status, !.detail = detail,
                       !.cause = cause]

\* line 114: the exception raised for an unsupported media type
UnsupportedFormat ==
    HttpError(400, "Only PDF, DOC, and DOCX files are supported", "")

\* lines 161-162: `except Exception as e` catches every exception raised in
\* the handler, HTTPException included, and raises HTTPException(500)
OuterExcept(e) == HttpError(500, "Processing failed", e)

\* lines 140-155: the dict returned for a processed resume
ScanResponse(facts) ==
    [NoResponse EXCEPT !.kind = "json", !.status = 200,
                       !.risk_score = RiskScore(facts.skills),
                       !.risk_level = RiskLevel(RiskScore(facts.skills)),
                       !.vulnerabilities = 0,
                       !.email_count = IF facts.email THEN 1 ELSE 0,
                       !.phone_count = IF facts.phone THEN 1 ELSE 0,
                       !.skills = facts.skills]

ApiInit ==
    /\ content_type \in ContentTypes
    /\ pdf \in IF content_type = "application/pdf" THEN PdfDocs ELSE {NoPdf}
    /\ apc = "start"
    /\ tmp_file = "none"
    /\ extraction = NoExtraction
    /\ api_response = NoResponse

\* scan_resume up to `await file.read()`: the media type test, whose
\* HTTPException(400) is raised inside the try of the handler
ScanResumeValidate ==
    /\ apc = "start"
    /\ IF content_type \notin SupportedTypes
           THEN /\ api_response' = OuterExcept(UnsupportedFormat.detail)
                /\ apc' = "done"
           ELSE /\ api_response' = api_response
                /\ apc' = "reading"
    /\ UNCHANGED <<content_type, pdf, tmp_file, extraction>>
    /\ UNCHANGED <<link_vars, privacy_vars>>

\* scan_resume after the read: the temporary file, the extraction, the
\* response, and the unlink of the finally clause
ScanResumeProcess ==
    /\ apc = "reading"
    /\ extraction' = IF content_type = "application/pdf"
                         THEN ExtractTextFromPdf(pdf)
                         ELSE [NoExtraction EXCEPT !.ok = TRUE,
                                                   !.text = DocPlaceholderText]
    /\ IF extraction'.ok
           THEN \E facts \in ResumeFacts(extraction'.text) :
                    api_response' = ScanResponse(facts)
           ELSE api_response' = OuterExcept("Could not extract text")
    /\ tmp_file' = "unlinked"
    /\ apc' = "done"
    /\ UNCHANGED <<content_type, pdf>>
    /\ UNCHANGED <<link_vars, privacy_vars>>

-----------------------------------------------------------------------------
(* The three components, each checked on its own *)

vars == <<link_vars, privacy_vars, api_vars>>

LinkIdle ==
    /\ text = ""
    /\ urls = <<>>
    /\ lpc = "idle"
    /\ idx = 0
    /\ vulnerabilities = <<>>
    /\ analysis_log = <<>>
    /\ probe_log = <<>>
    /\ inflight = {}
    /\ max_inflight = 0
    /\ elapsed = 0
    /\ link_result = NoResult

PrivacyIdle ==
    /\ matches = [c \in {patterns[k] : k \in 1..Len(patterns)} |-> 0]
    /\ ppc = "idle"
    /\ privacy_result = NoResult

ApiIdle ==
    /\ content_type = ""
    /\ pdf = NoPdf
    /\ apc = "idle"
    /\ tmp_file = "none"
    /\ extraction = NoExtraction
    /\ api_response = NoResponse

\* one LinkScanner.scan call
Init == LinkInit /\ PrivacyIdle /\ ApiIdle

Next == ScanStart \/ AnalyzeUrl \/ ProbeSettle

Spec == Init /\ [][Next]_vars

\* one PrivacyScanner.scan call
InitPrivacy == PrivacyInit /\ LinkIdle /\ ApiIdle

NextPrivacy == PrivacyScan

SpecPrivacy == InitPrivacy /\ [][NextPrivacy]_vars

\* one POST /scan-resume/ request
InitApi == ApiInit /\ LinkIdle /\ PrivacyIdle

NextApi == ScanResumeValidate \/ ScanResumeProcess

SpecApi == InitApi /\ [][NextApi]_vars

-----------------------------------------------------------------------------
(* Vocabulary of the Link Scanner properties *)

\* the iterations of the loop that have finished
Finished == 1..Len(analysis_log)

\* urlparse accepted the URL of iteration i, so that it has a domain
Parsed(i) == analysis_log[i].reason # "analysis_failed"

\* the probes settled so far, as a set of <<index, outcome>>
Settled == {probe_log[k] : k \in 1..Len(probe_log)}

\* a reachability probe was started for the URL of iteration i
EverProbed(i) == i \in inflight \/ \E p \in Settled : p[1] = i

\* the entries the finished iterations must have appended, in order
RECURSIVE VulnsOf(_, _)
VulnsOf(found, log) ==
    IF log = <<>> THEN <<>>
    ELSE LET n == Len(log)
             front == VulnsOf(found, SubSeq(log, 1, n - 1))
         IN  IF log[n].is_suspicious
                 THEN Append(front, Vulnerability(found[n], log[n]))
                 ELSE front

\* iteration i left exactly one entry of severity sev in the list
Reported(i, sev) ==
    /\ analysis_log[i].is_suspicious
    /\ analysis_log[i].severity = sev
    /\ LET k == Len(VulnsOf(urls, SubSeq(analysis_log, 1, i)))
       IN  /\ k \in 1..Len(vulnerabilities)
           /\ vulnerabilities[k].url = urls[i]
           /\ vulnerabilities[k].severity = sev
           /\ lpc = "done" => link_result.vulnerabilities[k] = vulnerabilities[k]

\* urlparse(url).hostname: the netloc without userinfo and port
HostName(netloc) ==
    LET at == FindFirstOf(netloc, {"@"}, 1)
        rest == IF at > Len(netloc) THEN netloc
                ELSE SubSeq(netloc, at + 1, Len(netloc))
        colon == FindFirstOf(rest, {":"}, 1)
    IN  Lower(SubSeq(rest, 1, colon - 1))

\* the whole string is four groups of one to three digits joined by dots
IsDottedDecimal(h) ==
    \E a, b, c, d \in 1..3 :
        /\ Len(h) = a + b + c + d + 3
        /\ IsDigitsAt(h, 1, a) /\ IsDotAt(h, a + 1)
        /\ IsDigitsAt(h, a + 2, b) /\ IsDotAt(h, a + b + 2)
        /\ IsDigitsAt(h, a + b + 3, c) /\ IsDotAt(h, a + b + c + 3)
        /\ IsDigitsAt(h, a + b + c + 4, d)

EndsWith(s, p) == Len(p) <= Len(s) /\ SubSeq(s, Len(s) - Len(p) + 1, Len(s)) = p

\* the host is a member of the safe list or a subdomain of one
IsSafeHost(h) ==
    \E k \in 1..Len(safe_domains) :
        h = safe_domains[k] \/ EndsWith(h, "." \o safe_domains[k])

-----------------------------------------------------------------------------
(* C1: in a finished scan in which two or more URLs were probed and every  *)
(* probe timed out, the probes overlapped (a later one was started before  *)
(* an earlier one settled) and the scan took one probe-timeout interval,   *)
(* not one per URL.                                                        *)
C1_ProbesConcurrent ==
    (/\ lpc = "done"
     /\ Len(probe_log) >= 2
     /\ \A p \in Settled : p[2].kind = "timeout")
        => /\ max_inflight >= 2
           /\ elapsed <= ClientTimeoutTotal

(* C2, as claimed: every URL whose domain matches a member of the          *)
(* shortener list is reported as suspicious with severity medium.          *)
C2_ShortenerAlwaysMedium ==
    \A i \in Finished :
        (Parsed(i) /\ AnyIn(shortener_domains, Domain(urls[i])))
            => Reported(i, "medium")

(* C2, amended: every URL whose domain matches a member of the shortener   *)
(* list and no member of the suspicious-domain list is reported as         *)
(* suspicious with severity medium; one that also matches the suspicious   *)
(* list is reported with severity high.                                    *)
C2_ShortenerMediumUnlessSuspicious ==
    \A i \in Finished :
        (Parsed(i) /\ AnyIn(shortener_domains, Domain(urls[i])))
            => IF AnyIn(suspicious_domains, Domain(urls[i]))
                   THEN Reported(i, "high")
                   ELSE Reported(i, "medium")

C2_Witness ==
    /\ lpc = "done"
    /\ \E i \in Finished :
           /\ Parsed(i)
           /\ AnyIn(shortener_domains, Domain(urls[i]))
           /\ ~AnyIn(suspicious_domains, Domain(urls[i]))
           /\ Reported(i, "medium")

(* C3, as claimed: a URL whose host is in the safe list, or a subdomain of *)
(* a member, is never probed and never appears in the vulnerability list.  *)
C3_SafeNeverProbedNeverListed ==
    \A i \in Finished :
        (Parsed(i) /\ IsSafeHost(HostName(NetLoc(urls[i]))))
            => ~EverProbed(i) /\ ~analysis_log[i].is_suspicious

(* C3, amended: for a URL whose domain matches the safe list no probe is   *)
(* ever started, and the URL does not appear in the vulnerability list     *)
(* unless its domain also matches the suspicious-domain list, the          *)
(* shortener list or the IPv4 pattern, which are tested first.             *)
C3_SafeNeverProbedListedOnlyByEarlierRule ==
    \A i \in 1..Len(urls) :
        AnyIn(safe_domains, Domain(urls[i]))
            => /\ ~EverProbed(i)
               /\ (i \in Finished /\ Parsed(i))
                      => \/ /\ ~analysis_log[i].is_suspicious
                            /\ \A k \in 1..Len(vulnerabilities) :
                                   vulnerabilities[k].url # urls[i]
                         \/ AnyIn(suspicious_domains, Domain(urls[i]))
                         \/ AnyIn(shortener_domains, Domain(urls[i]))
                         \/ IpPatternSearch(Domain(urls[i]))

C3_Witness ==
    /\ lpc = "done"
    /\ \E i \in Finished :
           /\ Parsed(i)
           /\ AnyIn(safe_domains, Domain(urls[i]))
           /\ ~analysis_log[i].is_suspicious
           /\ ~EverProbed(i)

(* C4: every URL whose host component is a literal dotted-decimal IPv4     *)
(* address is classified suspicious with severity medium, and no probe is  *)
(* started for it.                                                         *)
C4_IPv4HostMediumNoProbe ==
    \A i \in Finished :
        (Parsed(i) /\ IsDottedDecimal(HostName(NetLoc(urls[i]))))
            => Reported(i, "medium") /\ ~EverProbed(i)

(* C5, as claimed: a probed URL is classified suspicious with severity low *)
(* if and only if the probe timed out, failed to connect, raised, or       *)
(* returned a status outside 200..399.                                     *)
C5_ProbeLowIffNot2xx3xx ==
    \A p \in Settled :
        p[1] \in Finished
            => LET a == analysis_log[p[1]]
                   bad == p[2].kind # "status" \/ p[2].status \notin 200..399
               IN  /\ a.is_suspicious <=> bad
                   /\ a.is_suspicious => a.severity = "low"

(* C5, amended: a probed URL is classified suspicious with severity low if *)
(* and only if the probe timed out, failed to connect, raised, or returned *)
(* a status of 400 or more; any status below 400, 2xx and 3xx included,    *)
(* yields not suspicious.                                                  *)
C5_ProbeLowIffFailedOrStatusAtLeast400 ==
    \A p \in Settled :
        p[1] \in Finished
            => LET a == analysis_log[p[1]]
                   bad == p[2].kind # "status" \/ p[2].status >= 400
               IN  /\ a.is_suspicious <=> bad
                   /\ a.is_suspicious => Reported(p[1], "low")
                   /\ ~a.is_suspicious => a.severity = "none"

C5_Witness ==
    /\ lpc = "done"
    /\ \E p, q \in Settled :
           /\ p[2].kind = "status" /\ p[2].status >= 400
           /\ Reported(p[1], "low")
           /\ q[2].kind = "status" /\ q[2].status \in 200..399
           /\ ~analysis_log[q[1]].is_suspicious

(* C6: whatever the probes end in, the scan never raises and never stops   *)
(* before its return; when it has returned, every URL found in the text    *)
(* has been classified and the vulnerability list holds exactly one entry  *)
(* for each URL classified suspicious, in order.                           *)
C6_ScanCompletesAndClassifiesAll ==
    /\ lpc \in {"start", "loop", "probing", "done"}
    /\ lpc \in {"loop", "probing"} => idx \in 1..Len(urls)
    /\ lpc = "probing" => inflight = {idx}
    /\ vulnerabilities = VulnsOf(urls, analysis_log)
    /\ lpc = "done"
           => /\ urls = FindAll(text)
              /\ Len(analysis_log) = Len(urls)
              /\ link_result.vulnerabilities = VulnsOf(urls, analysis_log)
              /\ Len(link_result.vulnerabilities)
                     = Cardinality({i \in Finished : analysis_log[i].is_suspicious})

C6_Witness ==
    /\ lpc = "done"
    /\ Len(urls) >= 2
    /\ \E p \in Settled :
           /\ p[1] < Len(urls)
           /\ p[2].kind \in {"timeout", "connect_error", "exception"}
    /\ Len(analysis_log) = Len(urls)

(* C7: for every text, the text without a URL included, the returned dict  *)
(* holds the vulnerability list and the summary, with total_urls the       *)
(* number of matches, suspicious_urls the length of the vulnerability list *)
(* and at most total_urls, and analyzed_urls the matches in text order.    *)
C7_ResultHasListAndSummary ==
    lpc = "done"
        => /\ "vulnerabilities" \in DOMAIN link_result
           /\ "url_summary" \in DOMAIN link_result
           /\ link_result.url_summary.total_urls = Len(FindAll(text))
           /\ link_result.url_summary.suspicious_urls
                  = Len(link_result.vulnerabilities)
           /\ link_result.url_summary.suspicious_urls
                  <= link_result.url_summary.total_urls
           /\ link_result.url_summary.analyzed_urls = FindAll(text)

-----------------------------------------------------------------------------
(* Properties of scan_resume and of the Privacy Scanner *)

Min(a, b) == IF a < b THEN a ELSE b

(* C8: the risk score of a scan response is                                *)
(* min(malware*15, 40) + min(privacy*5, 30) + min(link*10, 30) over the    *)
(* findings the response reports, so it is 0 without findings and at most  *)
(* 100, and the level is high from 70, medium from 30, low otherwise.      *)
C8_RiskScoreIsBoundedSum ==
    (apc = "done" /\ api_response.kind = "json")
        => LET malware == api_response.vulnerabilities
               link == api_response.vulnerabilities
               privacy == api_response.email_count + api_response.phone_count
               score == Min(malware * 15, 40) + Min(privacy * 5, 30)
                            + Min(link * 10, 30)
           IN  /\ api_response.risk_score = score
               /\ api_response.risk_score <= 100
               /\ api_response.risk_level =
                      IF score >= 70 THEN "high"
                      ELSE IF score >= 30 THEN "medium" ELSE "low"

(* C9: for a media type that is not one of the three recognised ones the   *)
(* caller receives the unsupported-format error itself, not the generic    *)
(* processing failure; nothing is extracted and no scan result is made.    *)
C9_UnsupportedFormatReachesCaller ==
    (apc = "done" /\ content_type \notin SupportedTypes)
        => /\ api_response = UnsupportedFormat
           /\ ~extraction.called
           /\ tmp_file = "none"

(* C10: the overall privacy risk level is the highest level among the      *)
(* categories with at least one match (high for ssn and credit_card,       *)
(* medium for date_of_birth and address, low for phone and email); it is   *)
(* "none" exactly when no category matches, and then the issue list is     *)
(* empty; the issue list holds one issue per matched category and none for *)
(* a category without a match.                                             *)
C10_PrivacyRiskIsHighestMatched ==
    ppc = "done"
        => LET matched == {c \in DOMAIN matches : matches[c] > 0}
               issues == privacy_result.issues
               level == privacy_result.risk_level
           IN  /\ level =
                      IF matched \cap {"ssn", "credit_card"} # {} THEN "high"
                      ELSE IF matched \cap {"date_of_birth", "address"} # {}
                          THEN "medium"
                      ELSE IF matched \cap {"phone", "email"} # {} THEN "low"
                      ELSE "none"
               /\ level = "none" <=> matched = {}
               /\ matched = {} => issues = <<>>
               /\ \A k \in 1..Len(issues) :
                      issues[k].info_type \in matched /\ issues[k].count > 0
               /\ \A c \in matched :
                      Cardinality({k \in 1..Len(issues) : issues[k].info_type = c}) = 1

C10_Witness ==
    /\ ppc = "done"
    /\ privacy_result.risk_level = "medium"
    /\ Len(privacy_result.issues) = 2
    /\ matches["email"] > 0
    /\ matches["ssn"] = 0

-----------------------------------------------------------------------------
(* Properties of the PDF fallback chain *)

\* what each strategy produces on the upload when it runs on its own
PrimaryAlone ==
    IF pdf.plumber_open THEN PlumberLoop(pdf, 1, "") ELSE [ok |-> FALSE, text |-> ""]

SecondaryAlone ==
    IF pdf.pypdf_open THEN PyPdfLoop(pdf, 1, "") ELSE [ok |-> FALSE, text |-> ""]

(* C11: PDF extraction tries the primary strategy and then the secondary,  *)
(* stopping at the first success: the secondary is attempted only if the   *)
(* primary failed, an error is surfaced only if both failed, and the text  *)
(* returned is exactly the output of the one strategy that succeeded,      *)
(* with nothing in it from a primary attempt that failed part-way.         *)
C11_FallbackReturnsOneStrategyOutput ==
    (apc = "done" /\ extraction.called)
        => /\ extraction.primary_ok = PrimaryAlone.ok
           /\ extraction.secondary_tried <=> ~PrimaryAlone.ok
           /\ extraction.ok <=> (PrimaryAlone.ok \/ SecondaryAlone.ok)
           /\ api_response.kind = "error" <=> ~extraction.ok
           /\ extraction.ok
                  => extraction.text = IF PrimaryAlone.ok THEN PrimaryAlone.text
                                       ELSE SecondaryAlone.text

=============================================================================
